---- MODULE Spec2Model ----
(***************************************************************************)
(* A model of darfink/proximity-allocator: the pool registry, the two      *)
(* phase allocation (reuse of a registered pool, then a new memory map),   *)
(* the free-region scanner and the margins, with the operating system's    *)
(* memory map and region query as the environment.                         *)
(*                                                                         *)
(* Addresses are machine words of a scaled-down width: 0..MAX, in pages of *)
(* PageSize bytes.  A pool is one memory map; a box is one slice of a pool *)
(* that holds a strong reference to it; the registry holds weak ones.      *)
(***************************************************************************)
EXTENDS Integers, FiniteSets, Sequences, TLC

\* usize::max_value(), the end of the unbounded window (lib.rs:57).
MAX == 15

\* region::page::size() (search.rs:50).
PageSize == 2

\* The most live boxes the program holds at once.
MaxBoxes == 2

NumPages == (MAX + 1) \div PageSize

Pages == 0 .. (NumPages - 1)

\* Pages the process image occupies from the start (static mappings).
Foreign == {3, 4}

\* Pages the operating system hands out: not the lowest ones (the null page
\* and what the system keeps above it), not the top page.
UserPages == 2 .. (NumPages - 3)

Threads == {1, 2}

\* Pool identities: the pools that ever start at one base are told apart by
\* a slot; at most Slots of them are referred to at a time (one per live
\* box, one per call under way, one by the registry).
Slots == MaxBoxes + Cardinality(Threads) + 1

PoolIds == 1 .. (NumPages * Slots)

NoPool == 0

NoBox == [pool |-> NoPool, off |-> 0, size |-> 0]

NoRange == [start |-> 0, end |-> 0]

\* isize::min_value() of the scaled-down word.
IsizeMin == 0 - ((MAX + 1) \div 2)

IsizeMax == ((MAX + 1) \div 2) - 1

----------------------------------------------------------------------------
(* Inputs of the calls. *)

Sizes == {0, 1, PageSize}

Usize(d) == [kind |-> "usize", d |-> d]

Isize(start, end) == [kind |-> "isize", start |-> start, end |-> end]

Window(origin, start, end) ==
    [origin |-> origin, range |-> [start |-> start, end |-> end]]

Around(origin, margin) == [origin |-> origin, margin |-> margin]

\* Requests of the threads that share the allocator.
RangeCalls == {Window(8, 4, 5)}

MarginCalls == {Around(8, Usize(3))}

\* Requests of the program that makes its calls one after the other.
SeqRangeCalls ==
    {Window(8, 4, 11), Window(5, 4, 11), Window(4, 4, 5), Window(8, 4, 5),
     Window(12, 9, 15), Window(0, 0, 5)}

SeqMarginCalls ==
    {Around(o, Usize(d)) : o \in {0, 8, MAX}, d \in {0, 3}}
    \cup {Around(8, Isize(-2, 3)), Around(8, Isize(1, 3)),
          Around(8, Isize(3, 1)), Around(8, Isize(IsizeMin, 2)),
          Around(1, Isize(-2, 2))}

\* Every margin: each usize, and each Range<isize>.
Margins ==
    {Usize(d) : d \in 0 .. MAX}
    \cup {Isize(a, b) : a \in IsizeMin .. IsizeMax, b \in IsizeMin .. IsizeMax}

Origins == 0 .. MAX

----------------------------------------------------------------------------
(* util.rs, margin.rs: pure functions. *)

contains_(range, item) == range.start <= item /\ range.end > item

\* Mutant: the subtraction wraps around.
saturating_sub_Wrapping(a, b) == (a - b) % (MAX + 1)

saturating_sub(a, b) == IF a >= b THEN a - b ELSE 0

saturating_add(a, b) == IF a + b > MAX THEN MAX ELSE a + b

\* isize::abs followed by `as usize`.  abs(isize::MIN) overflows: a build
\* without overflow checks wraps it to isize::MIN, which `as usize` turns
\* into 2^(w-1); a build with overflow checks panics (abs_overflows).
abs_as_usize(x) ==
    IF x = IsizeMin THEN (MAX + 1) \div 2 ELSE IF x < 0 THEN 0 - x ELSE x

abs_overflows(x) == x = IsizeMin

as_range_isize(start, end, origin) ==
    [start |-> IF start < 0
               THEN saturating_sub(origin, abs_as_usize(start))
               ELSE saturating_add(origin, start),
     end   |-> IF end < 0
               THEN saturating_sub(origin, abs_as_usize(end))
               ELSE saturating_add(origin, end)]

as_range_usize(d, origin) ==
    [start |-> saturating_sub(origin, d), end |-> saturating_add(origin, d)]

as_range(margin, origin) ==
    IF margin.kind = "usize"
    THEN as_range_usize(margin.d, origin)
    ELSE as_range_isize(margin.start, margin.end, origin)

\* Whether as_range evaluates abs(isize::MIN).
as_range_overflows(margin) ==
    /\ margin.kind = "isize"
    /\ \/ abs_overflows(margin.start)
       \/ abs_overflows(margin.end)

----------------------------------------------------------------------------
VARIABLES
    pools,      \* lib.rs pools: the registry, base address -> weak pool
    readers,    \* threads holding the registry's reader lock
    arcs,       \* the pools alive: id -> its map, slab and strong count
    pages,      \* the operating system's memory map, page -> kind
    boxes,      \* the live ProximityBoxes
    thread      \* each thread's position and locals; maps, inserts, removed
                \* and last record what the call under way has done so far

vars == <<pools, readers, arcs, pages, boxes, thread>>

EmptyRegistry == [k \in {} |-> NoPool]

IdleThread ==
    [pc |-> "idle", op |-> "none", size |-> 0, origin |-> 0,
     range |-> NoRange, key |-> -1, inactive_pools |-> {}, pool |-> NoPool,
     allocation |-> NoBox, search |-> "None", current |-> 0, address |-> 0,
     result |-> "none", phase |-> "none", maps |-> 0, inserts |-> 0,
     removed |-> 0, last |-> "none"]

InitialPages == [p \in Pages |-> IF p \in Foreign THEN "foreign" ELSE "free"]

InitShared ==
    /\ pools = EmptyRegistry
    /\ readers = {}
    /\ arcs = [p \in {} |-> 0]
    /\ pages = InitialPages
    /\ boxes = {}

Init ==
    /\ InitShared
    /\ thread = [t \in Threads |-> IdleThread]

----------------------------------------------------------------------------
(* The operating system: region::query and MemoryMap, as lib.rs and        *)
(* search.rs use them.                                                     *)

PageOf(address) == address \div PageSize

\* MemoryMap::new rounds the length up to whole pages.
MapLen(size) == ((size + PageSize - 1) \div PageSize) * PageSize

MapPages(base, len) == PageOf(base) .. (PageOf(base) + (len \div PageSize) - 1)

\* region::query(address) answers Err(FreeMemory) for an unmapped address.
IsFreeMemory(address) == pages[PageOf(address)] = "free"

\* region::query(address) on a mapped address: the maximal run of pages of
\* the same kind around it, as [lower, upper).
RegionLower(address) ==
    LET p == PageOf(address)
        q == CHOOSE q \in 0 .. p :
                /\ \A r \in q .. p : pages[r] = pages[p]
                /\ q = 0 \/ pages[q - 1] # pages[p]
    IN  q * PageSize

RegionUpper(address) ==
    LET p == PageOf(address)
        q == CHOOSE q \in p .. (NumPages - 1) :
                /\ \A r \in p .. q : pages[r] = pages[p]
                /\ q = NumPages - 1 \/ pages[q + 1] # pages[p]
    IN  (q + 1) * PageSize

\* Bases at which a map of len bytes at an address of the system's choice
\* can land: runs of free pages the system hands out.
AnyBases(len) ==
    {p * PageSize : p \in {q \in UserPages :
        \A r \in MapPages(q * PageSize, len) :
            r \in UserPages /\ pages[r] = "free"}}

\* A map at a fixed address is possible only at a page boundary and inside
\* the pages the system hands out.
FixedPossible(address, len) ==
    /\ address % PageSize = 0
    /\ \A r \in MapPages(address, len) : r \in UserPages

\* Whether a successful map at a fixed address may replace what is mapped
\* there.  mmap with MAP_FIXED does; a system that refuses an occupied
\* address fails instead, which FixedMapFail allows at any time.
FixedMayReplace(address, len) == TRUE

FixedCanSucceed(address, len) ==
    /\ FixedPossible(address, len)
    /\ \/ \A r \in MapPages(address, len) : pages[r] = "free"
       \/ FixedMayReplace(address, len)

Mapped(pg, base, len) ==
    [p \in Pages |-> IF p \in MapPages(base, len) THEN "pool" ELSE pg[p]]

\* Drop of a MemoryMap: munmap of its range, whatever is mapped there now.
Unmapped(pg, base, len) ==
    [p \in Pages |-> IF p \in MapPages(base, len) THEN "free" ELSE pg[p]]

----------------------------------------------------------------------------
(* Pools: Arc<SlicePool<u8>> and its slab.                                 *)

Min(S) == CHOOSE x \in S : \A y \in S : x <= y

\* Whether the pool a strong or weak reference names is alive.
Alive(p) == p \in DOMAIN arcs

Unused(p) == ~Alive(p) /\ \A k \in DOMAIN pools : pools[k] # p

\* The identity of a pool newly created at base.
FreshPool(base) ==
    Min({p \in {PageOf(base) * Slots + s : s \in 1 .. Slots} : Unused(p)})

Overlaps(off1, size1, off2, size2) == off1 < off2 + size2 /\ off2 < off1 + size1

Fits(pool, off, size) ==
    /\ off + size <= pool.len
    /\ \A b \in pool.blocks : ~Overlaps(off, size, b.off, b.size)

\* SlicePool::alloc: whether a free run of size elements exists.
CanServe(pool, size) == \E off \in 0 .. pool.len : Fits(pool, off, size)

\* SlicePool::alloc takes the first free run that is large enough.
FirstFit(pool, size) ==
    CHOOSE off \in 0 .. pool.len :
        Fits(pool, off, size) /\ \A o \in 0 .. (off - 1) : ~Fits(pool, o, size)

\* Mutant: the last strong reference goes and the pool stays (as it would if
\* the registry held a strong reference of its own).
WithoutStrong_Kept(a, p) == [a EXCEPT ![p].strong = @ - 1]

\* Mutant: the pool goes with any strong reference, the last or not.
WithoutStrong_Always(a, p) == [q \in (DOMAIN a) \ {p} |-> a[q]]

\* The state after a strong reference to pool p is dropped: the map is
\* released when it was the last one.
WithoutStrong(a, p) ==
    IF a[p].strong = 1
    THEN [q \in (DOMAIN a) \ {p} |-> a[q]]
    ELSE [a EXCEPT ![p].strong = @ - 1]

PagesWithoutStrong(a, pg, p) ==
    IF a[p].strong = 1 THEN Unmapped(pg, a[p].base, a[p].len) ELSE pg

----------------------------------------------------------------------------
(* lib.rs: the public calls.  Each holds the asserts of the call and, when *)
(* they pass, enters alloc_with_existing_pool by taking the reader lock.   *)

ThreadsInCall == {t \in Threads : thread[t].pc # "idle"}

\* The program starts a call only while it holds fewer than MaxBoxes boxes,
\* counting the calls under way.
CanCall(t) ==
    /\ thread[t].pc = "idle"
    /\ Cardinality(boxes) + Cardinality(ThreadsInCall) < MaxBoxes

\* assert!(size > 0) of alloc (lib.rs:56).
AllocAsserts(size) == size > 0

\* Mutant: the window is not checked against the origin.
RangeAsserts_SizeOnly(size, origin, range) == size > 0

\* The asserts of alloc_with_range (lib.rs:93-94).
RangeAsserts(size, origin, range) == size > 0 /\ contains_(range, origin)

Called(op, size, origin, range) ==
    [IdleThread EXCEPT !.op = op, !.size = size, !.origin = origin,
                       !.range = range]

\* A failed assert unwinds out of the call.
Panic(t, call) ==
    /\ thread' = [thread EXCEPT ![t] = [call EXCEPT !.pc = "done",
                                                    !.result = "panic"]]
    /\ UNCHANGED <<pools, readers, arcs, pages, boxes>>

\* alloc_with_existing_pool begins: self.pools.read() (lib.rs:106).
EnterExisting(t, call) ==
    /\ thread' = [thread EXCEPT ![t] = [call EXCEPT !.pc = "upgrade"]]
    /\ readers' = readers \cup {t}
    /\ UNCHANGED <<pools, arcs, pages, boxes>>

Alloc(t, size) ==
    /\ CanCall(t)
    /\ LET call == Called("alloc", size, 0, [start |-> 0, end |-> MAX])
       IN  IF AllocAsserts(size)
           THEN EnterExisting(t, call)
           ELSE Panic(t, call)

CallWithRange(t, op, size, origin, range) ==
    LET call == Called(op, size, origin, range)
    IN  IF RangeAsserts(size, origin, range)
        THEN EnterExisting(t, call)
        ELSE Panic(t, call)

AllocWithRange(t, size, origin, range) ==
    /\ CanCall(t)
    /\ CallWithRange(t, "alloc_with_range", size, origin, range)

\* alloc_with_margin: margin.as_range(origin), then alloc_with_range.  Where
\* as_range takes abs(isize::MIN), a build with overflow checks panics there
\* and a build without goes on with the wrapped value.
AllocWithMargin(t, size, origin, margin) ==
    /\ CanCall(t)
    /\ \/ /\ as_range_overflows(margin)
          /\ Panic(t, Called("alloc_with_margin", size, origin, NoRange))
       \/ CallWithRange(t, "alloc_with_margin", size, origin,
                        as_range(margin, origin))

----------------------------------------------------------------------------
(* lib.rs: alloc_with_existing_pool (phase A).                             *)

\* Mutant: the scan takes every entry of the registry, in the window or not.
RangeKeys_Unbounded(th) == {k \in DOMAIN pools : k > th.key}

\* pools.range(range), the keys not yet visited.
RangeKeys(th) == {k \in DOMAIN pools : contains_(th.range, k) /\ k > th.key}

\* Mutant: the inactive keys are collected and never removed.
Pruned_Nothing(registry, keys) == registry

\* pools.remove(&key) for each inactive key (lib.rs:118-120).
Pruned(registry, keys) == [k \in (DOMAIN registry) \ keys |-> registry[k]]

\* pools.insert(base, weak) (lib.rs:138-142).
Inserted(registry, base, p) ==
    [k \in (DOMAIN registry) \cup {base} |-> IF k = base THEN p ELSE registry[k]]

\* Where alloc / alloc_with_range go once alloc_with_existing_pool returned:
\* out with the box, or on to a new pool (the or_else of lib.rs:60, 97).
Decided(th) ==
    LET out == [th EXCEPT !.key = -1, !.inactive_pools = {}]
    IN  IF th.allocation # NoBox
        THEN [out EXCEPT !.pc = "done", !.result = "box", !.phase = "A"]
        ELSE IF th.op = "alloc"
             THEN [out EXCEPT !.pc = "reserve"]
             ELSE [out EXCEPT !.pc = "search", !.search = "After",
                              !.current = th.origin]

\* The reader lock is released; stale keys, if any, are removed next.
Scanned(th) ==
    IF th.inactive_pools # {} THEN [th EXCEPT !.pc = "prune"] ELSE Decided(th)

\* One step of the filter_map: pool.upgrade() of the next entry in range.
Upgrade(t) ==
    LET th == thread[t]
        keys == RangeKeys(th)
    IN  /\ th.pc = "upgrade"
        /\ keys # {}
        /\ LET k == Min(keys)
               p == pools[k]
           IN  IF ~Alive(p)
               THEN /\ thread' = [thread EXCEPT ![t].key = k,
                                      ![t].inactive_pools = @ \cup {k}]
                    /\ UNCHANGED arcs
               ELSE /\ thread' = [thread EXCEPT ![t].key = k, ![t].pool = p,
                                      ![t].pc = "pool_alloc"]
                    /\ arcs' = [arcs EXCEPT ![p].strong = @ + 1]
        /\ UNCHANGED <<pools, readers, pages, boxes>>

\* pool.alloc(size) on the upgraded pool: the first success ends the scan
\* (lib.rs:111-113); on failure the upgraded reference is dropped.
PoolAlloc(t) ==
    LET th == thread[t]
        p == th.pool
    IN  /\ th.pc = "pool_alloc"
        /\ IF CanServe(arcs[p], th.size)
           THEN LET off == FirstFit(arcs[p], th.size)
                    b == [pool |-> p, off |-> off, size |-> th.size]
                IN  /\ arcs' = [arcs EXCEPT ![p].blocks =
                                    @ \cup {[off |-> off, size |-> th.size]}]
                    /\ boxes' = boxes \cup {b}
                    /\ readers' = readers \ {t}
                    /\ thread' = [thread EXCEPT ![t] =
                           Scanned([th EXCEPT !.allocation = b,
                                              !.pool = NoPool])]
                    /\ UNCHANGED pages
           ELSE /\ arcs' = WithoutStrong(arcs, p)
                /\ pages' = PagesWithoutStrong(arcs, pages, p)
                /\ thread' = [thread EXCEPT ![t].pool = NoPool,
                                            ![t].pc = "upgrade"]
                /\ UNCHANGED <<boxes, readers>>
        /\ UNCHANGED pools

\* Mutant: the reader lock is still held when the scan is over.
ScanEnd_Holding(t) ==
    LET th == thread[t]
    IN  /\ th.pc = "upgrade"
        /\ RangeKeys(th) = {}
        /\ thread' = [thread EXCEPT ![t] = Scanned(th)]
        /\ UNCHANGED <<pools, readers, arcs, pages, boxes>>

\* The range is exhausted: the reader lock is released (lib.rs:114).
ScanEnd(t) ==
    LET th == thread[t]
    IN  /\ th.pc = "upgrade"
        /\ RangeKeys(th) = {}
        /\ readers' = readers \ {t}
        /\ thread' = [thread EXCEPT ![t] = Scanned(th)]
        /\ UNCHANGED <<pools, arcs, pages, boxes>>

\* self.pools.write() and the removal of the inactive keys (lib.rs:116-121).
Prune(t) ==
    LET th == thread[t]
    IN  /\ th.pc = "prune"
        /\ readers = {}
        /\ pools' = Pruned(pools, th.inactive_pools)
        /\ thread' = [thread EXCEPT ![t] =
               [Decided(th) EXCEPT !.removed =
                   Cardinality((DOMAIN pools) \ (DOMAIN pools'))]]
        /\ UNCHANGED <<readers, arcs, pages, boxes>>

----------------------------------------------------------------------------
(* search.rs: FreeRegionIter, and lib.rs: reserve_memory_map*.             *)

\* Mutant: the sweep is bounded by the address space only, not the window.
InSweep_Unbounded(th) == contains_([start |-> 1, end |-> MAX], th.current)

\* The loop condition of FreeRegionIter::next (search.rs:53).
InSweep(th) ==
    /\ contains_([start |-> 1, end |-> MAX], th.current)
    /\ contains_(th.range, th.current)

\* The cursor after a mapped region (search.rs:56-59).
PastRegion(th) ==
    IF th.search = "Before"
    THEN saturating_sub(RegionLower(th.current), PageSize)
    ELSE RegionUpper(th.current)

\* Mutant: the cursor stays where the element was yielded.
NextPage_Stuck(th) == th.current

\* The cursor after an element was yielded (search.rs:69-72).
NextPage(th) ==
    IF th.search = "Before"
    THEN saturating_sub(th.current, PageSize)
    ELSE saturating_add(th.current, PageSize)

\* SlicePool::new(SliceableMemoryMap::new(map)) (lib.rs:185).
WithNewPool(a, p, base, len) ==
    [q \in (DOMAIN a) \cup {p} |->
        IF q = p
        THEN [base |-> base, len |-> len, strong |-> 1, blocks |-> {}]
        ELSE a[q]]

\* region::query answered Ok(region): the cursor moves past it, no yield.
SearchSkip(t) ==
    LET th == thread[t]
    IN  /\ th.pc = "search"
        /\ InSweep(th)
        /\ ~IsFreeMemory(th.current)
        /\ thread' = [thread EXCEPT ![t].current = PastRegion(th),
                                    ![t].last = "skip"]
        /\ UNCHANGED <<pools, readers, arcs, pages, boxes>>

\* region::query answered Err(FreeMemory): Ok(current) is yielded, and
\* reserve_memory_map(size, Some(address)) is next (lib.rs:161).
SearchFree(t) ==
    LET th == thread[t]
    IN  /\ th.pc = "search"
        /\ InSweep(th)
        /\ IsFreeMemory(th.current)
        /\ thread' = [thread EXCEPT ![t].address = th.current,
                                    ![t].current = NextPage(th),
                                    ![t].pc = "reserve_fixed",
                                    ![t].last = "free"]
        /\ UNCHANGED <<pools, readers, arcs, pages, boxes>>

\* Mutant: the failure is recorded and the sweep goes on to the next page.
SearchError_Skipped(t) ==
    LET th == thread[t]
    IN  /\ th.pc = "search"
        /\ InSweep(th)
        /\ thread' = [thread EXCEPT ![t].current = NextPage(th),
                                    ![t].last = "err"]
        /\ UNCHANGED <<pools, readers, arcs, pages, boxes>>

\* region::query failed with another error: Err is yielded and ends
\* reserve_memory_map_within_range (lib.rs:162, 166).
SearchError(t) ==
    LET th == thread[t]
    IN  /\ th.pc = "search"
        /\ InSweep(th)
        /\ thread' = [thread EXCEPT ![t].current = NextPage(th),
                                    ![t].pc = "done",
                                    ![t].result = "RegionFailure",
                                    ![t].last = "err"]
        /\ UNCHANGED <<pools, readers, arcs, pages, boxes>>

\* free_regions_after is exhausted: the chain goes on with
\* free_regions_before, which starts at the origin again (lib.rs:155-157).
SearchChain(t) ==
    LET th == thread[t]
    IN  /\ th.pc = "search"
        /\ ~InSweep(th)
        /\ th.search = "After"
        /\ thread' = [thread EXCEPT ![t].search = "Before",
                                    ![t].current = th.origin]
        /\ UNCHANGED <<pools, readers, arcs, pages, boxes>>

\* Both sweeps are exhausted: unwrap_or(Err(Error::OutOfMemory)) (lib.rs:168).
SearchEnd(t) ==
    LET th == thread[t]
    IN  /\ th.pc = "search"
        /\ ~InSweep(th)
        /\ th.search = "Before"
        /\ thread' = [thread EXCEPT ![t].search = "End", ![t].current = 0,
                                    ![t].pc = "done",
                                    ![t].result = "OutOfMemory"]
        /\ UNCHANGED <<pools, readers, arcs, pages, boxes>>

\* Mutant: the map lands at an address of the system's choice.
ReserveFixedOk_Elsewhere(t) ==
    LET th == thread[t]
        len == MapLen(th.size)
    IN  /\ th.pc = "reserve_fixed"
        /\ \E base \in AnyBases(len) :
              LET p == FreshPool(base)
              IN  /\ pages' = Mapped(pages, base, len)
                  /\ arcs' = WithNewPool(arcs, p, base, len)
                  /\ thread' = [thread EXCEPT ![t].pool = p,
                                    ![t].pc = "new_pool", ![t].current = 0,
                                    ![t].address = 0, ![t].maps = @ + 1,
                                    ![t].last = "map_ok"]
        /\ UNCHANGED <<pools, readers, boxes>>

\* MemoryMap::new(size, options + MapAddr(address)) succeeds (lib.rs:174-180).
ReserveFixedOk(t) ==
    LET th == thread[t]
        len == MapLen(th.size)
        p == FreshPool(th.address)
    IN  /\ th.pc = "reserve_fixed"
        /\ FixedCanSucceed(th.address, len)
        /\ pages' = Mapped(pages, th.address, len)
        /\ arcs' = WithNewPool(arcs, p, th.address, len)
        /\ thread' = [thread EXCEPT ![t].pool = p, ![t].pc = "new_pool",
                                    ![t].current = 0, ![t].address = 0,
                                    ![t].maps = @ + 1, ![t].last = "map_ok"]
        /\ UNCHANGED <<pools, readers, boxes>>

\* Mutant: the first refused candidate ends the call with OutOfMemory.
ReserveFixedFail_Abort(t) ==
    LET th == thread[t]
    IN  /\ th.pc = "reserve_fixed"
        /\ thread' = [thread EXCEPT ![t].pc = "done", ![t].address = 0,
                                    ![t].result = "OutOfMemory",
                                    ![t].last = "map_fail"]
        /\ UNCHANGED <<pools, readers, arcs, pages, boxes>>

\* MemoryMap::new at the fixed address fails: .ok() drops the candidate and
\* the filter_map asks the scanner for the next one (lib.rs:161).
ReserveFixedFail(t) ==
    LET th == thread[t]
    IN  /\ th.pc = "reserve_fixed"
        /\ thread' = [thread EXCEPT ![t].pc = "search", ![t].address = 0,
                                    ![t].last = "map_fail"]
        /\ UNCHANGED <<pools, readers, arcs, pages, boxes>>

\* MemoryMap::new(size, options) at an address of the system's choice
\* succeeds (lib.rs:62, 182).
ReserveAnyOk(t) ==
    LET th == thread[t]
        len == MapLen(th.size)
    IN  /\ th.pc = "reserve"
        /\ \E base \in AnyBases(len) :
              LET p == FreshPool(base)
              IN  /\ pages' = Mapped(pages, base, len)
                  /\ arcs' = WithNewPool(arcs, p, base, len)
                  /\ thread' = [thread EXCEPT ![t].pool = p,
                                    ![t].pc = "new_pool", ![t].maps = @ + 1,
                                    ![t].last = "map_ok"]
        /\ UNCHANGED <<pools, readers, boxes>>

\* It fails: map_err(|_| Error::OutOfMemory) (lib.rs:183).
ReserveAnyFail(t) ==
    LET th == thread[t]
    IN  /\ th.pc = "reserve"
        /\ thread' = [thread EXCEPT ![t].pc = "done",
                                    ![t].result = "OutOfMemory",
                                    ![t].last = "map_fail"]
        /\ UNCHANGED <<pools, readers, arcs, pages, boxes>>

\* alloc_with_new_pool (phase B, lib.rs:126-144): the first slice of the new
\* pool, then self.pools.write().insert(base, weak).
NewPool(t) ==
    LET th == thread[t]
        p == th.pool
    IN  /\ th.pc = "new_pool"
        /\ IF CanServe(arcs[p], th.size)
           THEN LET off == FirstFit(arcs[p], th.size)
                    b == [pool |-> p, off |-> off, size |-> th.size]
                IN  /\ readers = {}
                    /\ arcs' = [arcs EXCEPT ![p].blocks =
                                    @ \cup {[off |-> off, size |-> th.size]}]
                    /\ pools' = Inserted(pools, arcs[p].base, p)
                    /\ boxes' = boxes \cup {b}
                    /\ thread' = [thread EXCEPT ![t].allocation = b,
                                      ![t].pool = NoPool, ![t].pc = "done",
                                      ![t].result = "box", ![t].phase = "B",
                                      ![t].inserts = @ + 1]
                    /\ UNCHANGED pages
           ELSE /\ arcs' = WithoutStrong(arcs, p)
                /\ pages' = PagesWithoutStrong(arcs, pages, p)
                /\ thread' = [thread EXCEPT ![t].pool = NoPool,
                                  ![t].pc = "done",
                                  ![t].result = "OutOfMemory"]
                /\ UNCHANGED <<pools, boxes>>
        /\ UNCHANGED readers

\* The call returns to the program.
Return(t) ==
    /\ thread[t].pc = "done"
    /\ thread' = [thread EXCEPT ![t] = IdleThread]
    /\ UNCHANGED <<pools, readers, arcs, pages, boxes>>

\* Mutant: the drop of a pool's last box also removes its registry entry.
Drop_Unregistering(t, b) ==
    /\ thread[t].pc = "idle"
    /\ b \in boxes
    /\ \A u \in Threads : thread[u].allocation # b
    /\ boxes' = boxes \ {b}
    /\ LET freed == [arcs EXCEPT ![b.pool].blocks =
                        @ \ {[off |-> b.off, size |-> b.size]}]
       IN  /\ arcs' = WithoutStrong(freed, b.pool)
           /\ pages' = PagesWithoutStrong(arcs, pages, b.pool)
           /\ pools' = IF arcs[b.pool].strong = 1
                       THEN Pruned(pools, {k \in DOMAIN pools :
                                              pools[k] = b.pool})
                       ELSE pools
    /\ UNCHANGED <<readers, thread>>

\* The program drops a box it holds: the slice goes back to the slab and
\* the box's strong reference is dropped (lib.rs:190-194).
Drop(t, b) ==
    /\ thread[t].pc = "idle"
    /\ b \in boxes
    /\ \A u \in Threads : thread[u].allocation # b
    /\ boxes' = boxes \ {b}
    /\ LET freed == [arcs EXCEPT ![b.pool].blocks =
                        @ \ {[off |-> b.off, size |-> b.size]}]
       IN  /\ arcs' = WithoutStrong(freed, b.pool)
           /\ pages' = PagesWithoutStrong(arcs, pages, b.pool)
    /\ UNCHANGED <<pools, readers, thread>>

\* The steps of the threads T of a program that draws its requests from
\* sizes, calls (an origin and a window) and margins (an origin and a margin).
Step(T, sizes, calls, margins) ==
    \/ \E t \in T, size \in sizes : Alloc(t, size)
    \/ \E t \in T, size \in sizes, c \in calls :
          AllocWithRange(t, size, c.origin, c.range)
    \/ \E t \in T, size \in sizes, m \in margins :
          AllocWithMargin(t, size, m.origin, m.margin)
    \/ \E t \in T : Upgrade(t)
    \/ \E t \in T : PoolAlloc(t)
    \/ \E t \in T : ScanEnd(t)
    \/ \E t \in T : Prune(t)
    \/ \E t \in T : SearchSkip(t)
    \/ \E t \in T : SearchFree(t)
    \/ \E t \in T : SearchError(t)
    \/ \E t \in T : SearchChain(t)
    \/ \E t \in T : SearchEnd(t)
    \/ \E t \in T : ReserveFixedOk(t)
    \/ \E t \in T : ReserveFixedFail(t)
    \/ \E t \in T : ReserveAnyOk(t)
    \/ \E t \in T : ReserveAnyFail(t)
    \/ \E t \in T : NewPool(t)
    \/ \E t \in T : Return(t)
    \/ \E t \in T, b \in boxes : Drop(t, b)

\* margin.as_range(origin) on its own, as alloc_with_margin evaluates it
\* (lib.rs:78): the caller is left with the window, or with the panic of
\* abs(isize::MIN) in a build with overflow checks.
AsRange(t, origin, margin) ==
    /\ thread[t].pc = "idle"
    /\ \E out \in {[result |-> "range", range |-> as_range(margin, origin)]}
                  \cup (IF as_range_overflows(margin)
                        THEN {[result |-> "panic", range |-> NoRange]}
                        ELSE {}) :
          thread' = [thread EXCEPT ![t] =
              [pc |-> "done", op |-> "as_range", origin |-> origin,
               margin |-> margin, range |-> out.range,
               result |-> out.result]]
    /\ UNCHANGED <<pools, readers, arcs, pages, boxes>>

Next == Step(Threads, Sizes, RangeCalls, MarginCalls)

NextSeq == Step({1}, Sizes, SeqRangeCalls, SeqMarginCalls)

\* Threads that share one allocator.
Spec == Init /\ [][Next]_vars

\* One thread: no call runs concurrently with another.
SpecSeq == Init /\ [][NextSeq]_vars

\* The steps of a call under way that wait for nothing.
Running(t) ==
    \/ Upgrade(t) \/ PoolAlloc(t) \/ ScanEnd(t)
    \/ SearchSkip(t) \/ SearchFree(t) \/ SearchChain(t) \/ SearchEnd(t)
    \/ ReserveFixedOk(t) \/ ReserveFixedFail(t)
    \/ ReserveAnyOk(t) \/ ReserveAnyFail(t)

\* Threads that share one allocator, under a fair scheduler and a fair
\* lock: a call under way keeps taking steps, and a thread that waits for
\* the writer lock (lib.rs:117, 140) gets it if it is free again and again.
\* The threads' requests where every call must return: one size, so that
\* no call ends in the panic of a zero size.
FairSizes == {1}

NextFair == Step(Threads, FairSizes, RangeCalls, MarginCalls)

FairSpec ==
    /\ Init /\ [][NextFair]_vars
    /\ \A t \in Threads :
          /\ WF_vars(Running(t))
          /\ SF_vars(Prune(t))
          /\ SF_vars(NewPool(t))

NextMargin ==
    \/ \E origin \in Origins, margin \in Margins : AsRange(1, origin, margin)
    \/ Return(1)

\* A caller that converts margins to windows, over every origin and margin.
SpecMargin == Init /\ [][NextMargin]_vars

----------------------------------------------------------------------------
(* Properties.                                                             *)

BoxStart(b) == arcs[b.pool].base + b.off

BoxEnd(b) == BoxStart(b) + b.size

Returned(t) == thread[t].pc = "done" /\ thread[t].result # "panic"

ReturnedBox(t) == thread[t].pc = "done" /\ thread[t].result = "box"

StaleKeys(range) ==
    {k \in DOMAIN pools : contains_(range, k) /\ ~Alive(pools[k])}

\* C1: every box a call returns starts inside the window of that call,
\* whether it was carved from a registered pool or from a new one.
C1_BoxStartsInWindow ==
    \A t \in Threads :
        ReturnedBox(t) =>
            contains_(thread[t].range, BoxStart(thread[t].allocation))

\* C2: no two live boxes cover overlapping byte ranges.
C2_BoxesDisjoint ==
    \A b1 \in boxes : \A b2 \in boxes :
        b1 # b2 =>
            ~Overlaps(BoxStart(b1), b1.size, BoxStart(b2), b2.size)

BoxesOf(p) == {b \in boxes : b.pool = p}

\* The threads whose call holds a strong reference to pool p: the upgraded
\* reference of phase A, or the pool phase B has not yet admitted.
HoldersOf(p) == {t \in Threads : thread[t].pool = p}

\* C3: a pool's map is released in the step that drops the last box derived
\* from the pool, and in no step that leaves a box of the pool live.
C3_ReleasedWhenLastBoxDropped ==
    [][\A p \in DOMAIN arcs :
          /\ (BoxesOf(p) # {} /\ \A b \in BoxesOf(p) : b \notin boxes')
                => p \notin DOMAIN arcs'
          /\ p \notin DOMAIN arcs'
                => \A b \in BoxesOf(p) : b \notin boxes']_vars

\* C3 (amended): a pool's map is alive exactly while a strong reference to
\* the pool is: one per live box derived from it and one per call that
\* holds the pool.  The registry's entry counts for nothing, and the pool of
\* a live box is alive.
C3_ReleasedWithLastStrongReference ==
    /\ \A p \in PoolIds :
          Alive(p) <=> (BoxesOf(p) # {} \/ HoldersOf(p) # {})
    /\ \A p \in DOMAIN arcs :
          arcs[p].strong = Cardinality(BoxesOf(p)) + Cardinality(HoldersOf(p))
    /\ \A b \in boxes : Alive(b.pool)

\* A call holds the upgraded reference of a registered pool whose last box
\* has been dropped meanwhile.
C3_Witness ==
    \E t \in Threads :
        /\ thread[t].pc = "pool_alloc"
        /\ BoxesOf(thread[t].pool) = {}
        /\ \E k \in DOMAIN pools : pools[k] = thread[t].pool

\* C6: a drop leaves the registry as it is, and a key leaves the registry
\* only in the pruning step of an allocation call.
C6_DropLeavesRegistry ==
    [][/\ (boxes' # boxes /\ boxes' \subseteq boxes) => pools' = pools
       /\ (DOMAIN pools) \ (DOMAIN pools') # {}
             => \E t \in Threads :
                   thread[t].pc = "prune" /\ thread'[t].pc # "prune"]_vars

\* The last box of a pool has been dropped and its entry is still there.
C6_Witness ==
    /\ boxes = {}
    /\ \E k \in DOMAIN pools : ~Alive(pools[k])

\* C4: when a call with window W returns, no registry entry with its key in
\* W is stale.
C4_NoStaleEntryInWindow ==
    \A t \in Threads : Returned(t) => StaleKeys(thread[t].range) = {}

\* C4 (amended): when a call with window W returns, a registry entry with
\* its key in W is stale only if the call was served from a registered pool
\* and the entry's key lies above that pool's: the scan stops at the first
\* pool that serves, and prunes what it saw.
C4_ObservedStaleEntriesPruned ==
    \A t \in Threads :
        Returned(t) =>
            \A k \in StaleKeys(thread[t].range) :
                /\ thread[t].phase = "A"
                /\ k > arcs[thread[t].allocation.pool].base

\* A call pruned a stale entry and was served from a registered pool.
C4_Witness ==
    \E t \in Threads :
        /\ ReturnedBox(t)
        /\ thread[t].phase = "A"
        /\ thread[t].removed > 0

\* No live registered pool with its base in the window, other than the one
\* at `except`, can serve size bytes.
NoPoolServes(range, size, except) ==
    \A k \in DOMAIN pools :
        (k # except /\ contains_(range, k) /\ Alive(pools[k]))
            => ~CanServe(arcs[pools[k]], size)

\* C5: a call that returns a box carved it from a live registered pool with
\* its base in the window, without mapping or registering anything, or else
\* no such pool could serve and the call mapped one pool and added one
\* registry entry, under the pool's base.
C5_NewPoolIffNoPoolServes ==
    /\ [](\A t \in Threads :
            ReturnedBox(t) =>
                LET th == thread[t]
                    p == th.allocation.pool
                    base == arcs[p].base
                IN  /\ base \in DOMAIN pools /\ pools[base] = p
                    /\ th.phase = "A" =>
                          /\ th.maps = 0 /\ th.inserts = 0
                          /\ contains_(th.range, base)
                    /\ th.phase = "B" =>
                          /\ th.maps = 1 /\ th.inserts = 1
                          /\ NoPoolServes(th.range, th.size, base))
    /\ [][\A t \in Threads :
            thread'[t].inserts > thread[t].inserts =>
                \E base \in (DOMAIN pools') \ (DOMAIN pools) :
                    /\ DOMAIN pools' = (DOMAIN pools) \cup {base}
                    /\ base = arcs'[thread'[t].allocation.pool].base]_vars

\* A call mapped a new pool while another live pool is registered in its
\* window.
C5_Witness ==
    \E t \in Threads :
        /\ ReturnedBox(t)
        /\ thread[t].phase = "B"
        /\ \E k \in DOMAIN pools :
              /\ contains_(thread[t].range, k)
              /\ Alive(pools[k])
              /\ pools[k] # thread[t].allocation.pool

Misuse(th) ==
    \/ th.size = 0
    \/ th.op = "alloc_with_range" /\ ~contains_(th.range, th.origin)

\* C7: a call with size 0, or alloc_with_range with the origin outside the
\* window, panics in its first step, which changes nothing but the caller;
\* a call that panicked has queried, mapped, added and removed nothing.
C7_MisusePanicsBeforeAnyEffect ==
    /\ [](\A t \in Threads :
            thread[t].result = "panic" =>
                /\ thread[t].pc = "done"
                /\ t \notin readers
                /\ thread[t].maps = 0 /\ thread[t].inserts = 0
                /\ thread[t].removed = 0 /\ thread[t].last = "none")
    /\ [][\A t \in Threads :
            (thread[t].pc = "idle" /\ thread'[t].pc # "idle"
                /\ Misuse(thread'[t]))
            => /\ thread'[t].pc = "done"
               /\ thread'[t].result = "panic"
               /\ UNCHANGED <<pools, readers, arcs, pages, boxes>>]_vars

\* alloc_with_range with a size and an origin outside the window panicked.
C7_Witness ==
    \E t \in Threads :
        /\ thread[t].result = "panic"
        /\ thread[t].op = "alloc_with_range"
        /\ thread[t].size > 0
        /\ ~contains_(thread[t].range, thread[t].origin)

\* C8: alloc_with_margin panics only when the size is zero.
C8_MarginCallPanicsOnlyOnZeroSize ==
    \A t \in Threads :
        (thread[t].op = "alloc_with_margin" /\ thread[t].result = "panic")
            => thread[t].size = 0

\* C9: a region query failure in a bounded call's search ends the call at
\* once with RegionFailure: the call stays where the failure left it (no
\* further query, no map attempt, no downward sweep after a failure in the
\* upward one), has mapped no pool and added no registry entry; and
\* RegionFailure is returned in no other way.
C9_ScannerFailureEndsTheCall ==
    \A t \in Threads :
        /\ thread[t].last = "err" =>
              /\ thread[t].pc = "done"
              /\ thread[t].result = "RegionFailure"
              /\ thread[t].op # "alloc"
              /\ thread[t].maps = 0 /\ thread[t].inserts = 0
              /\ thread[t].pool = NoPool /\ thread[t].allocation = NoBox
        /\ thread[t].result = "RegionFailure" => thread[t].last = "err"

\* A region query failed during the upward sweep of a bounded call.
C9_Witness ==
    \E t \in Threads :
        /\ thread[t].result = "RegionFailure"
        /\ thread[t].search = "After"
        /\ thread[t].last = "err"

\* Every page mapped for a pool belongs to a live pool.
PoolPagesOwned ==
    \A pg \in Pages :
        pages[pg] = "pool" =>
            \E p \in DOMAIN arcs : pg \in MapPages(arcs[p].base, arcs[p].len)

\* C10: a call returns OutOfMemory exactly when it returns no box and either
\* (bounded) both sweeps were exhausted with no failure and no candidate
\* mapped, or (unbounded) the map call failed; then no live registered pool
\* in the window can serve, no registry entry was added and no map is left.
C10_OutOfMemoryExactlyWhen ==
    \A t \in Threads :
        Returned(t) =>
            LET th == thread[t]
                exhausted == /\ th.op # "alloc"
                             /\ th.search = "End"
                             /\ th.last # "err"
                             /\ th.maps = 0
                refused == th.op = "alloc" /\ th.last = "map_fail"
            IN  /\ th.result = "OutOfMemory"
                      <=> (th.allocation = NoBox /\ (exhausted \/ refused))
                /\ th.result = "OutOfMemory" =>
                      /\ NoPoolServes(th.range, th.size, -1)
                      /\ th.inserts = 0 /\ th.maps = 0
                      /\ th.pool = NoPool
                      /\ PoolPagesOwned

\* A bounded call ran out of candidates after the system refused one.
C10_Witness ==
    \E t \in Threads :
        /\ thread[t].result = "OutOfMemory"
        /\ thread[t].op # "alloc"
        /\ thread[t].search = "End"
        /\ thread[t].last = "map_fail"

\* The calls of as_range the caller has made.
AsRangeCalls == {t \in Threads : thread[t].op = "as_range"}

\* C11: Margin::as_range never panics, for every origin and every margin,
\* isize::MIN as a bound of a signed interval included.
C11_AsRangeNeverPanics ==
    \A t \in AsRangeCalls : thread[t].result # "panic"

\* origin + offset, clamped to [0, MAX].
Clamped(x) == IF x < 0 THEN 0 ELSE IF x > MAX THEN MAX ELSE x

\* The saturated reference window of a margin around an origin.
ReferenceWindow(margin, origin) ==
    IF margin.kind = "usize"
    THEN [start |-> Clamped(origin - margin.d),
          end |-> Clamped(origin + margin.d)]
    ELSE [start |-> Clamped(origin + margin.start),
          end |-> Clamped(origin + margin.end)]

\* C12: the window as_range returns is the saturated reference: each bound
\* is the origin plus the signed offset (minus and plus d for a distance),
\* clamped to [0, MAX]; no bound wraps around.
C12_WindowIsSaturatedReference ==
    \A t \in AsRangeCalls :
        thread[t].result = "range" =>
            /\ thread[t].range = ReferenceWindow(thread[t].margin, thread[t].origin)
            /\ thread[t].range.start \in 0 .. MAX
            /\ thread[t].range.end \in 0 .. MAX

\* A signed interval whose negative start exceeds the origin in magnitude
\* gave the lower bound 0.
C12_Witness ==
    \E t \in AsRangeCalls :
        /\ thread[t].result = "range"
        /\ thread[t].margin.kind = "isize"
        /\ thread[t].margin.start < 0
        /\ thread[t].origin + thread[t].margin.start < 0
        /\ thread[t].origin > 0
        /\ thread[t].range.start = 0

\* The scanner yields Ok(address) to thread t in this step.
Yields(t) == thread[t].pc = "search" /\ thread'[t].pc = "reserve_fixed"

\* C13: every address the scanner yields lies in the window and in [1, MAX)
\* and is the cursor at which the region query answered FreeMemory; a cursor
\* inside a mapped region is not yielded.
C13_YieldedAddressFreeInWindow ==
    [][\A t \in Threads :
        Yields(t) =>
            /\ thread'[t].address = thread[t].current
            /\ contains_(thread[t].range, thread'[t].address)
            /\ thread'[t].address >= 1 /\ thread'[t].address < MAX
            /\ IsFreeMemory(thread'[t].address)]_vars

\* The downward sweep yielded an address below a mapped region it skipped.
C13_Witness ==
    \E t \in Threads :
        /\ thread[t].pc = "reserve_fixed"
        /\ thread[t].search = "Before"
        /\ thread[t].address < thread[t].origin
        /\ ~IsFreeMemory(thread[t].origin)

\* C14: every address the scanner yields is a multiple of the page size.
C14_YieldedAddressAligned ==
    \A t \in Threads :
        thread[t].pc = "reserve_fixed" => thread[t].address % PageSize = 0

\* C15: the upward sweep yields addresses at or above the origin, the
\* downward sweep yields addresses below the origin.
C15_UpwardThenDownward ==
    [][\A t \in Threads :
        Yields(t) =>
            IF thread[t].search = "After"
            THEN thread'[t].address >= thread[t].origin
            ELSE thread'[t].address < thread[t].origin]_vars

\* A step of the scanner's loop: a region skipped, an address or a failure
\* yielded.
LoopStep(t) ==
    /\ thread[t].pc = "search"
    /\ InSweep(thread[t])
    /\ thread'[t] # thread[t]

\* C16: at every step of the loop the cursor moves strictly in the direction
\* of the sweep (up to MAX, down to 0, where the sweep ends), and stays
\* inside the address space.
C16_CursorMovesStrictly ==
    [][\A t \in Threads :
        LoopStep(t) =>
            /\ thread'[t].current \in 0 .. MAX
            /\ thread'[t].search = thread[t].search
            /\ IF thread[t].search = "After"
               THEN thread'[t].current > thread[t].current
               ELSE thread'[t].current < thread[t].current]_vars

\* The downward sweep ended with the cursor saturated at 0, after it had
\* yielded.
C16_Witness ==
    \E t \in Threads :
        /\ thread[t].pc = "search"
        /\ thread[t].search = "Before"
        /\ thread[t].current = 0
        /\ thread[t].last = "map_fail"

\* C17: a bounded call maps its pool at the first candidate the system
\* accepts: every candidate yielded is tried at once; a refusal leaves the
\* search where it was; a success makes the pool at the candidate's address
\* and is the only one of the call, with no query or attempt after it.
C17_FirstAcceptedCandidateWins ==
    /\ [](\A t \in Threads :
            /\ thread[t].maps <= 1
            /\ (thread[t].op # "alloc" /\ thread[t].last = "map_ok") =>
                  /\ thread[t].pc \in {"new_pool", "done"}
                  /\ thread[t].maps = 1)
    /\ [][\A t \in Threads :
            (thread[t].pc = "reserve_fixed" /\ thread'[t] # thread[t]) =>
                \/ /\ thread'[t].pc = "new_pool"
                   /\ thread'[t].last = "map_ok"
                   /\ arcs'[thread'[t].pool].base = thread[t].address
                \/ /\ thread'[t].pc = "search"
                   /\ thread'[t].last = "map_fail"
                   /\ thread'[t].search = thread[t].search
                   /\ thread'[t].current = thread[t].current
                   /\ thread'[t].maps = thread[t].maps]_vars

\* A call got its pool from the downward sweep after a candidate of the
\* upward sweep, still free, had been refused.
C17_Witness ==
    \E t \in Threads :
        /\ ReturnedBox(t)
        /\ thread[t].phase = "B"
        /\ thread[t].search = "Before"
        /\ \E a \in thread[t].origin .. MAX :
              /\ contains_(thread[t].range, a)
              /\ IsFreeMemory(a)

\* C18: every pool that has a live box has a registry entry under its base
\* address that refers to it.
C18_LivePoolRegistered ==
    \A b \in boxes :
        LET base == arcs[b.pool].base
        IN  base \in DOMAIN pools /\ pools[base] = b.pool

\* The pools that have no box before this step and have one after it.
FirstBoxPools == {b.pool : b \in {c \in boxes' \ boxes : BoxesOf(c.pool) = {}}}

\* C19: a pool gets a box only at its admission, never again once its
\* boxes have all been released.
C19_NoServiceAfterLastBox ==
    [][\A p \in FirstBoxPools :
          \E t \in Threads :
              thread[t].pool = p /\ thread[t].pc = "new_pool"]_vars

\* C19 (amended): a pool whose boxes have all been released gets a box again
\* only from a call of phase A that holds the strong reference it upgraded,
\* which has kept the pool alive; a pool that is gone serves nothing: the
\* slice of every live box is taken in the slab of a live pool.
C19_ServiceOnlyThroughStrongReference ==
    /\ [](\A b \in boxes :
            /\ Alive(b.pool)
            /\ [off |-> b.off, size |-> b.size] \in arcs[b.pool].blocks)
    /\ [][\A p \in FirstBoxPools :
            /\ Alive(p)
            /\ \E t \in Threads :
                  /\ thread[t].pool = p
                  /\ thread[t].pc \in {"new_pool", "pool_alloc"}
                  /\ thread'[t].allocation.pool = p]_vars

\* The last box of a pool is dropped while a call holds the upgraded
\* reference, and the pool can serve that call.
C19_Witness ==
    \E t \in Threads :
        /\ thread[t].pc = "pool_alloc"
        /\ BoxesOf(thread[t].pool) = {}
        /\ CanServe(arcs[thread[t].pool], thread[t].size)

\* Thread t waits for the writer lock.
WaitsForWriter(t) ==
    \/ thread[t].pc = "prune"
    \/ thread[t].pc = "new_pool" /\ CanServe(arcs[thread[t].pool], thread[t].size)

====
